---- MODULE Spec2Model ----
(***************************************************************************)
(* State-machine model of src/src/App.jsx: the session store               *)
(* (AuthProvider), the sign-in/sign-up form, the navigation, and the feed, *)
(* users and profile pages with their remote calls.                        *)
(*                                                                         *)
(* A remote call is a record in the sequence `inflight` from the moment    *)
(* api.fetch is called until its promise settles; the settling step runs   *)
(* the rest of the awaiting handler (everything up to its next await).     *)
(* Strings the code inspects are tuples of one-character strings.          *)
(***************************************************************************)
EXTENDS Integers, Sequences, FiniteSets, TLC

\* ------------------------------------------------------------------ bounds
\* Number of remote calls that may be outstanding at the same time.
MaxInFlight == 2

\* ------------------------------------------------------------ text values
Str(n, c) == [i \in 1..n |-> c]

Whitespace == {" ", "\t", "\n"}

WordChars ==
    {"a","b","c","d","e","f","g","h","i","j","k","l","m","n","o","p","q","r",
     "s","t","u","v","w","x","y","z","A","B","C","D","E","F","G","H","I","J",
     "K","L","M","N","O","P","Q","R","S","T","U","V","W","X","Y","Z","0","1",
     "2","3","4","5","6","7","8","9","_"}

\* String.prototype.trim() === '' : only whitespace is left to remove.
TrimIsEmpty(s) == \A i \in 1..Len(s) : s[i] \in Whitespace

\* ------------------------------------------------------------- validator
NoError == "null"

\* `${fieldName} is required`
IsRequiredMessage(fieldName) ==
    CASE fieldName = "Username" -> "Username is required"
      [] fieldName = "Password" -> "Password is required"
      [] fieldName = "Name" -> "Name is required"
      [] fieldName = "Email" -> "Email is required"
      [] OTHER -> "Field is required"

required(value, fieldName) ==
    IF Len(value) = 0 \/ TrimIsEmpty(value)
    THEN IsRequiredMessage(fieldName)
    ELSE NoError

NotSpaceOrAt(s, lo, hi) ==
    /\ lo <= hi
    /\ \A i \in lo..hi : s[i] \notin Whitespace /\ s[i] # "@"

\* /^[^\s@]+@[^\s@]+\.[^\s@]+$/
emailRegexTest(s) ==
    \E a \in 1..Len(s) : \E d \in 1..Len(s) :
        /\ a < d
        /\ s[a] = "@"
        /\ s[d] = "."
        /\ NotSpaceOrAt(s, 1, a - 1)
        /\ NotSpaceOrAt(s, a + 1, d - 1)
        /\ NotSpaceOrAt(s, d + 1, Len(s))

email(value) ==
    IF ~emailRegexTest(value) THEN "Please enter a valid email address" ELSE NoError

UsernameMin == 3
UsernameMax == 20

\* /^[a-zA-Z0-9_]{3,20}$/
usernameRegexTest(s) ==
    /\ Len(s) >= UsernameMin
    /\ Len(s) <= UsernameMax
    /\ \A i \in 1..Len(s) : s[i] \in WordChars

username(value) ==
    IF ~usernameRegexTest(value)
    THEN "Username must be 3-20 characters (letters, numbers, underscore only)"
    ELSE NoError

PasswordMin == 6

password(value) ==
    IF Len(value) < PasswordMin
    THEN "Password must be at least 6 characters"
    ELSE NoError

\* a || b on validator results: the first error wins.
OrElse(first, second) == IF first # NoError THEN first ELSE second

\* ------------------------------------------------------------ API client
\* api.fetch on a response that is not ok: the message of the thrown Error.
\* `body.parsed` is whether res.json() resolved, `body.error` its error field
\* ("" when absent).
RequestFailed == "Request failed"

ErrorMessage(body) ==
    IF body.parsed /\ body.error # "" THEN body.error ELSE RequestFailed

ErrorBodies ==
    { [parsed |-> FALSE, error |-> ""],
      [parsed |-> TRUE, error |-> "Invalid credentials"] }

\* ------------------------------------------------------------ data values
UserIds == {1, 2}
PostIds == {1, 2}

\* useState(null) of AuthProvider.
NULL == [id |-> 0]

\* data.user of the auth endpoints: the account the person at this browser
\* signs in with.  The other ids of UserIds belong to other people.
Identities == { [id |-> 1] }

\* A like carries a nested user reference (user = the id of like.user) or a
\* direct userId field; 0 stands for an absent field.
Like(u, uid) == [user |-> u, userId |-> uid]

\* hasLikes = FALSE is a post whose payload has no likes collection.
PostRec(i, ls) == [id |-> i, hasLikes |-> TRUE, likes |-> ls]
PostNoLikes(i) == [id |-> i, hasLikes |-> FALSE, likes |-> << >>]

\* data.posts of GET /posts/feed
FeedPayloads ==
    { << PostRec(1, << Like(2, 0), Like(0, 1) >>), PostRec(2, << Like(2, 0) >>) >>,
      << PostNoLikes(2) >> }

\* data.users of GET /users
UsersPayloads ==
    { << [id |-> 1], [id |-> 2] >>, << [id |-> 2] >> }

Names == {"Ann"}
Bios == {""}

NoProfile == [id |-> 0, name |-> "", bio |-> "", posts |-> << >>]

\* data.user of GET /users/{id}
ProfilePayloads(id) ==
    { [id |-> id, name |-> n, bio |-> b, posts |-> ps] :
        n \in Names, b \in Bios,
        ps \in { << >>, << PostRec(1, << Like(1, 0) >>) >> } }

\* What the user may type.
NewPostSamples == { << " ", "\n" >>, << " ", "h", "i" >> }
CommentSamples == { << "o", "k", " " >> }
\* The edit form once the owner has typed a name and a bio into it.
TypedProfileForms == { [name |-> "Bob", bio |-> "bio"] }

\* ----------------------------------------------------------------- state
VARIABLES
    user, loading,                                   \* AuthProvider
    loggedOut,                                       \* history: see below
    mode, formData, errors, apiError, signInLoading, \* SignInPage
    currentPage,                                     \* Navigation
    posts, newPost, feedLoading,                     \* FeedPage
    comment,                                         \* Post (per rendered post)
    users,                                           \* UsersPage
    profile, editing, profileFormData,               \* ProfilePage
    inflight,                                        \* outstanding remote calls
    ev                                               \* the step just taken

\* loggedOut records why the session is anonymous: it is true from a successful
\* logout for as long as no identity has been set again.
authVars == <<user, loading, loggedOut>>
signInVars == <<mode, formData, errors, apiError, signInLoading>>
feedVars == <<posts, newPost, feedLoading>>
profileVars == <<profile, editing, profileFormData>>
pageVars == <<currentPage, posts, newPost, feedLoading, comment, users,
              profile, editing, profileFormData>>
vars == <<user, loading, loggedOut, mode, formData, errors, apiError, signInLoading,
          currentPage, posts, newPost, feedLoading, comment, users,
          profile, editing, profileFormData, inflight, ev>>

\* ---------------------------------------------------------- remote calls
\* kind: the endpoint; arg: the id in its path (0 when none); ctx: the function
\* that awaits it; live: whether the component instance whose handler awaits
\* it is still mounted (its state setters still take effect).
\* uid is the userId prop the calling closure of ProfilePage holds (0 elsewhere).
\* stale is history: the call was made before a logout() that has since
\* succeeded, or it is a feed fetch made before a feed fetch that has since
\* succeeded.
Req(kind, arg, ctx, uid) ==
    [kind |-> kind, arg |-> arg, ctx |-> ctx, uid |-> uid, live |-> TRUE,
     stale |-> FALSE]

NoReq ==
    [kind |-> "none", arg |-> 0, ctx |-> "none", uid |-> 0, live |-> FALSE,
     stale |-> FALSE]

ProfileMutations == {"handleUpdateProfile", "handlePhotoUpload"}

\* Calls awaited by AuthProvider, which never unmounts.
ProviderKinds == {"GET /auth/me", "POST /auth/logout"}

\* Calls whose continuation still reaches AuthProvider after the calling view
\* has unmounted: login and signup (setUser), and a profile mutation with the
\* re-fetch it awaits (refreshUser follows).
ReachesProvider(r) ==
    \/ r.kind \in ProviderKinds
    \/ r.kind \in {"POST /auth/login", "POST /auth/register"}
    \/ r.kind \in {"PATCH /users/me", "POST /users/me/photo"}
    \/ r.kind = "GET /users/id" /\ r.ctx \in ProfileMutations

Orphaned(r) ==
    IF r.kind \in ProviderKinds THEN r ELSE [r EXCEPT !.live = FALSE]

OrphanAll(reqs) == [i \in 1..Len(reqs) |-> Orphaned(reqs[i])]

\* The outstanding calls once the mounted view is gone.  The state setters
\* of an unmounted component do nothing, so a call all of whose continuation
\* is such setters (and fetches that end in them) is no longer followed.
Unmounted(reqs) == SelectSeq(OrphanAll(reqs), ReachesProvider)

\* How many of the calls reqs are to one of kinds on behalf of one of ctxs.
Count(reqs, kinds, ctxs) ==
    Cardinality({ i \in 1..Len(reqs) : reqs[i].kind \in kinds /\ reqs[i].ctx \in ctxs })

\* inflight is in the order the calls were made: the identity checks among
\* the first n calls of reqs were made before the call that followed them.
MarkStale(reqs, n) ==
    [j \in 1..Len(reqs) |->
        IF j <= n /\ reqs[j].kind = "GET /auth/me"
        THEN [reqs[j] EXCEPT !.stale = TRUE]
        ELSE reqs[j]]

\* The feed fetches among the first n calls of reqs were made before the
\* fetch that followed them.
MarkSuperseded(reqs, n) ==
    [j \in 1..Len(reqs) |->
        IF j <= n /\ reqs[j].kind = "GET /posts/feed"
        THEN [reqs[j] EXCEPT !.stale = TRUE]
        ELSE reqs[j]]

Remove(reqs, i) == SubSeq(reqs, 1, i - 1) \o SubSeq(reqs, i + 1, Len(reqs))

HasRoom == Len(inflight) < MaxInFlight

Event(op, phase, r) == [op |-> op, phase |-> phase, req |-> r]

\* ------------------------------------------------------------ AppContent
\* Which top-level view AppContent renders.
View(u, l) == IF l THEN "loading" ELSE IF u = NULL THEN "signin" ELSE "nav"

InitialFormData == [username |-> << >>, email |-> << >>, password |-> << >>, name |-> << >>]
InitialProfileFormData == [name |-> "", bio |-> ""]
NoErrors == << >>

PostIdsOf(ps) == { ps[i].id : i \in 1..Len(ps) }

\* Post components are keyed by post.id: a post that stays in the list keeps
\* its comment draft, a new one starts with ''.
CommentsFor(ps) ==
    [p \in PostIdsOf(ps) |-> IF p \in DOMAIN comment THEN comment[p] ELSE << >>]

\* A comment call whose Post component is gone can no longer clear its input.
DetachComments(reqs, ps) ==
    [i \in 1..Len(reqs) |->
        IF reqs[i].kind = "POST /comments" /\ reqs[i].arg \notin PostIdsOf(ps)
        THEN [reqs[i] EXCEPT !.live = FALSE]
        ELSE reqs[i]]

SignInFresh ==
    /\ mode' = "login"
    /\ formData' = InitialFormData
    /\ errors' = NoErrors
    /\ apiError' = ""
    /\ signInLoading' = FALSE

PagesFresh ==
    /\ posts' = << >>
    /\ newPost' = << >>
    /\ feedLoading' = FALSE
    /\ comment' = << >>
    /\ users' = << >>
    /\ profile' = NoProfile
    /\ editing' = FALSE
    /\ profileFormData' = InitialProfileFormData

\* The useEffect of the page that mounts.
MountFetch(page, u) ==
    CASE page = "feed" -> Req("GET /posts/feed", 0, "loadFeed", 0)
      [] page = "users" -> Req("GET /users", 0, "loadUsers", 0)
      [] page = "profile" -> Req("GET /users/id", u.id, "loadProfile", u.id)

\* setUser(u2) and setLoading(l2) in AuthProvider, and the re-render of
\* AppContent that follows; reqs are the calls left outstanding.
Render(u2, l2, reqs) ==
    /\ user' = u2
    /\ loading' = l2
    /\ IF View(u2, l2) = View(user, loading)
       THEN /\ UNCHANGED <<signInVars, pageVars>>
            /\ inflight' =
                 IF View(u2, l2) = "nav" /\ currentPage = "profile" /\ u2.id # user.id
                 THEN Append(reqs, MountFetch("profile", u2))
                 ELSE reqs
       ELSE /\ SignInFresh
            /\ PagesFresh
            /\ currentPage' = "feed"
            /\ inflight' =
                 IF View(u2, l2) = "nav"
                 THEN Append(Unmounted(reqs), MountFetch("feed", u2))
                 ELSE Unmounted(reqs)

\* ------------------------------------------------------------------ Init
Init ==
    /\ user = NULL
    /\ loading = TRUE
    /\ loggedOut = FALSE
    /\ mode = "login"
    /\ formData = InitialFormData
    /\ errors = NoErrors
    /\ apiError = ""
    /\ signInLoading = FALSE
    /\ currentPage = "feed"
    /\ posts = << >>
    /\ newPost = << >>
    /\ feedLoading = FALSE
    /\ comment = << >>
    /\ users = << >>
    /\ profile = NoProfile
    /\ editing = FALSE
    /\ profileFormData = InitialProfileFormData
    /\ inflight = << Req("GET /auth/me", 0, "checkAuth", 0) >>
    /\ ev = Event("mount", "issue", Req("GET /auth/me", 0, "checkAuth", 0))

\* ---------------------------------------------------------- AuthProvider
\* Mutant: checkAuth without the setUser(null) of its catch.
checkAuthKeepsUser(i, ok, data) ==
    /\ inflight[i].kind = "GET /auth/me"
    /\ ev' = Event("checkAuth", IF ok THEN "ok" ELSE "fail", inflight[i])
    /\ Render(IF ok THEN data ELSE user, FALSE, Remove(inflight, i))
    /\ loggedOut' = IF ok THEN FALSE ELSE loggedOut

\* checkAuth after its await: the identity check at startup and every
\* refreshUser().
checkAuth(i, ok, data) ==
    /\ inflight[i].kind = "GET /auth/me"
    /\ ev' = Event("checkAuth", IF ok THEN "ok" ELSE "fail", inflight[i])
    /\ Render(IF ok THEN data ELSE NULL, FALSE, Remove(inflight, i))
    /\ loggedOut' = IF ok THEN FALSE ELSE loggedOut

CheckAuthResolve ==
    \E i \in 1..Len(inflight) :
        \/ \E data \in Identities : checkAuth(i, TRUE, data)
        \/ checkAuth(i, FALSE, NULL)

\* Mutant: login with a catch of its own that swallows the Error.
loginSwallowsError(i, ok, data, body) ==
    /\ inflight[i].kind = "POST /auth/login"
    /\ ev' = Event("login", IF ok THEN "ok" ELSE "fail", inflight[i])
    /\ IF ok
       THEN /\ Render(data, loading, Remove(inflight, i))
            /\ loggedOut' = FALSE
       ELSE /\ inflight' = Remove(inflight, i)
            /\ signInLoading' = IF inflight[i].live THEN FALSE ELSE signInLoading
            /\ UNCHANGED <<authVars, mode, formData, errors, apiError, pageVars>>

\* login and signup after their await.  On success: setUser(data.user), and
\* the view that called is replaced.  On failure the Error is thrown to
\* handleSubmit, whose catch shows it; its finally clears the loading flag.
login(i, ok, data, body) ==
    /\ inflight[i].kind = "POST /auth/login"
    /\ ev' = Event("login", IF ok THEN "ok" ELSE "fail", inflight[i])
    /\ IF ok
       THEN /\ Render(data, loading, Remove(inflight, i))
            /\ loggedOut' = FALSE
       ELSE /\ inflight' = Remove(inflight, i)
            /\ apiError' = IF inflight[i].live THEN ErrorMessage(body) ELSE apiError
            /\ signInLoading' = IF inflight[i].live THEN FALSE ELSE signInLoading
            /\ UNCHANGED <<authVars, mode, formData, errors, pageVars>>

signup(i, ok, data, body) ==
    /\ inflight[i].kind = "POST /auth/register"
    /\ ev' = Event("signup", IF ok THEN "ok" ELSE "fail", inflight[i])
    /\ IF ok
       THEN /\ Render(data, loading, Remove(inflight, i))
            /\ loggedOut' = FALSE
       ELSE /\ inflight' = Remove(inflight, i)
            /\ apiError' = IF inflight[i].live THEN ErrorMessage(body) ELSE apiError
            /\ signInLoading' = IF inflight[i].live THEN FALSE ELSE signInLoading
            /\ UNCHANGED <<authVars, mode, formData, errors, pageVars>>

\* Mutant: logout that clears the session in a finally.
logoutFailOpen(i, ok) ==
    /\ inflight[i].kind = "POST /auth/logout"
    /\ ev' = Event("logout", IF ok THEN "ok" ELSE "fail", inflight[i])
    /\ Render(NULL, loading, MarkStale(Remove(inflight, i), i - 1))
    /\ loggedOut' = TRUE

\* logout after its await: a rejected call throws before setUser(null).
logout(i, ok) ==
    /\ inflight[i].kind = "POST /auth/logout"
    /\ ev' = Event("logout", IF ok THEN "ok" ELSE "fail", inflight[i])
    /\ IF ok
       THEN /\ Render(NULL, loading, MarkStale(Remove(inflight, i), i - 1))
            /\ loggedOut' = TRUE
       ELSE /\ inflight' = Remove(inflight, i)
            /\ UNCHANGED <<authVars, signInVars, pageVars>>

NoBody == [parsed |-> FALSE, error |-> ""]

LoginResolve ==
    \E i \in 1..Len(inflight) :
        \/ \E data \in Identities : login(i, TRUE, data, NoBody)
        \/ \E body \in ErrorBodies : login(i, FALSE, NULL, body)

SignupResolve ==
    \E i \in 1..Len(inflight) :
        \/ \E data \in Identities : signup(i, TRUE, data, NoBody)
        \/ \E body \in ErrorBodies : signup(i, FALSE, NULL, body)

LogoutResolve ==
    \E i \in 1..Len(inflight) : \E ok \in BOOLEAN : logout(i, ok)

\* ------------------------------------------------------------ SignInPage
Fields == {"username", "password", "name", "email"}

FieldErrors(fd, m) ==
    [username |-> OrElse(required(fd.username, "Username"), username(fd.username)),
     password |-> OrElse(required(fd.password, "Password"), password(fd.password)),
     name |-> IF m = "signup" THEN required(fd.name, "Name") ELSE NoError,
     email |-> IF m = "signup"
               THEN OrElse(required(fd.email, "Email"), email(fd.email))
               ELSE NoError]

\* Mutant: validate that checks name and email in both modes.
validateIgnoresMode(fd, m) ==
    [f \in {g \in Fields : FieldErrors(fd, "signup")[g] # NoError} |->
        FieldErrors(fd, "signup")[f]]

\* newErrors of validate(): one key per field that has an error.
validate(fd, m) ==
    [f \in {g \in Fields : FieldErrors(fd, m)[g] # NoError} |-> FieldErrors(fd, m)[f]]

\* Object.keys(newErrors).length === 0
IsValid(newErrors) == DOMAIN newErrors = {}

SubmitRequest(m) ==
    IF m = "login"
    THEN Req("POST /auth/login", 0, "handleSubmit", 0)
    ELSE Req("POST /auth/register", 0, "handleSubmit", 0)

\* The submit button is disabled while a request is in flight.
handleSubmit ==
    /\ View(user, loading) = "signin"
    /\ ~signInLoading
    /\ apiError' = ""
    /\ errors' = validate(formData, mode)
    /\ IF ~IsValid(validate(formData, mode))
       THEN /\ ev' = Event("handleSubmit", "rejected", NoReq)
            /\ UNCHANGED <<signInLoading, inflight>>
       ELSE /\ HasRoom
            /\ signInLoading' = TRUE
            /\ inflight' = Append(inflight, SubmitRequest(mode))
            /\ ev' = Event("handleSubmit", "issue", SubmitRequest(mode))
    /\ UNCHANGED <<authVars, mode, formData, pageVars>>

setMode(m) ==
    /\ View(user, loading) = "signin"
    /\ mode # m
    /\ mode' = m
    /\ ev' = Event("setMode", "done", NoReq)
    /\ UNCHANGED <<authVars, formData, errors, apiError, signInLoading, pageVars, inflight>>

\* The user fills in the inputs the mode shows, one onChange after another:
\* setFormData({ ...formData, [field]: e.target.value }).
setFormData(fd) ==
    /\ View(user, loading) = "signin"
    /\ formData # fd
    /\ mode = "login" => fd.name = formData.name /\ fd.email = formData.email
    /\ formData' = fd
    /\ ev' = Event("setFormData", "done", NoReq)
    /\ UNCHANGED <<authVars, mode, errors, apiError, signInLoading, pageVars, inflight>>

\* What the user types into the sign-in form.
TypedForms ==
    { [username |-> <<"a", "b", "c">>, password |-> Str(6, "p"),
       name |-> << >>, email |-> << >>],
      [username |-> <<"a", "b", "c">>, password |-> Str(6, "p"),
       name |-> <<"N">>, email |-> <<"a", "@", "b", ".", "c">>],
      [username |-> <<"a", "b">>, password |-> << >>,
       name |-> <<"N">>, email |-> <<"a", "@", "b">>] }

FillForm == \E fd \in TypedForms : setFormData(fd)

ToggleMode == \E m \in {"login", "signup"} : setMode(m)

\* ------------------------------------------------------------ Navigation
LogoutRequest == Req("POST /auth/logout", 0, "logout", 0)

\* onClick={logout}
logoutClick ==
    /\ View(user, loading) = "nav"
    /\ HasRoom
    /\ inflight' = Append(inflight, LogoutRequest)
    /\ ev' = Event("logout", "issue", LogoutRequest)
    /\ UNCHANGED <<authVars, signInVars, pageVars>>

\* A page that is replaced unmounts, the new one mounts and runs its effect.
setCurrentPage(p) ==
    /\ View(user, loading) = "nav"
    /\ currentPage # p
    /\ Len(Unmounted(inflight)) < MaxInFlight
    /\ currentPage' = p
    /\ PagesFresh
    /\ inflight' = Append(Unmounted(inflight), MountFetch(p, user))
    /\ ev' = Event("setCurrentPage", "issue", MountFetch(p, user))
    /\ UNCHANGED <<authVars, signInVars>>

SwitchPage == \E p \in {"feed", "users", "profile"} : setCurrentPage(p)

\* ------------------------------------------------------------------ Post
Absent == 0

\* Mutant: isLiked that reads only the nested user reference.
isLikedNestedOnly(post, u) ==
    /\ post.hasLikes
    /\ \E k \in 1..Len(post.likes) :
          post.likes[k].user # Absent /\ post.likes[k].user = u.id

\* post.likes?.some(like => like.user?.id === user.id || like.userId === user.id)
isLiked(post, u) ==
    /\ post.hasLikes
    /\ \E k \in 1..Len(post.likes) :
          \/ post.likes[k].user # Absent /\ post.likes[k].user = u.id
          \/ post.likes[k].userId # Absent /\ post.likes[k].userId = u.id

\* The posts rendered as Post components, and the onUpdate they are given.
RenderedPosts ==
    CASE currentPage = "feed" -> posts
      [] currentPage = "profile" -> profile.posts
      [] OTHER -> << >>

onUpdateOf(page) == IF page = "feed" THEN "loadFeed" ELSE "loadProfile"

LikeRequest(post, u, page) ==
    Req(IF isLiked(post, u) THEN "DELETE /likes" ELSE "POST /likes",
        post.id, onUpdateOf(page), IF page = "profile" THEN u.id ELSE 0)

\* onUpdate && onUpdate(): the parent's loader starts its fetch.
onUpdate(r) ==
    IF r.ctx = "loadFeed"
    THEN Req("GET /posts/feed", 0, "loadFeed", 0)
    ELSE Req("GET /users/id", r.uid, "loadProfile", r.uid)

handleLike(k) ==
    /\ View(user, loading) = "nav"
    /\ k \in 1..Len(RenderedPosts)
    /\ HasRoom
    /\ inflight' = Append(inflight, LikeRequest(RenderedPosts[k], user, currentPage))
    /\ ev' = Event("handleLike", "issue", LikeRequest(RenderedPosts[k], user, currentPage))
    /\ UNCHANGED <<authVars, signInVars, pageVars>>

\* handleLike after its await.
likeDone(i, ok) ==
    /\ inflight[i].kind \in {"POST /likes", "DELETE /likes"}
    /\ ev' = Event("handleLike", IF ok THEN "ok" ELSE "fail", inflight[i])
    /\ inflight' = IF ok
                   THEN Append(Remove(inflight, i), onUpdate(inflight[i]))
                   ELSE Remove(inflight, i)
    /\ UNCHANGED <<authVars, signInVars, pageVars>>

setComment(p, text) ==
    /\ View(user, loading) = "nav"
    /\ p \in DOMAIN comment
    /\ comment[p] # text
    /\ comment' = [comment EXCEPT ![p] = text]
    /\ ev' = Event("setComment", "done", NoReq)
    /\ UNCHANGED <<authVars, signInVars, currentPage, feedVars, users, profileVars, inflight>>

CommentRequest(p, u, page) ==
    Req("POST /comments", p, onUpdateOf(page), IF page = "profile" THEN u.id ELSE 0)

handleComment(p) ==
    /\ View(user, loading) = "nav"
    /\ p \in DOMAIN comment
    /\ IF TrimIsEmpty(comment[p])
       THEN /\ ev' = Event("handleComment", "rejected", NoReq)
            /\ UNCHANGED inflight
       ELSE /\ HasRoom
            /\ inflight' = Append(inflight, CommentRequest(p, user, currentPage))
            /\ ev' = Event("handleComment", "issue", CommentRequest(p, user, currentPage))
    /\ UNCHANGED <<authVars, signInVars, pageVars>>

\* handleComment after its await.
commentDone(i, ok) ==
    /\ inflight[i].kind = "POST /comments"
    /\ ev' = Event("handleComment", IF ok THEN "ok" ELSE "fail", inflight[i])
    /\ comment' = IF ok /\ inflight[i].live
                  THEN [comment EXCEPT ![inflight[i].arg] = << >>]
                  ELSE comment
    /\ inflight' = IF ok
                   THEN Append(Remove(inflight, i), onUpdate(inflight[i]))
                   ELSE Remove(inflight, i)
    /\ UNCHANGED <<authVars, signInVars, currentPage, feedVars, users, profileVars>>

LikeClick == \E k \in 1..Len(RenderedPosts) : handleLike(k)

LikeResolve == \E i \in 1..Len(inflight) : \E ok \in BOOLEAN : likeDone(i, ok)

TypeComment == \E p \in PostIds : \E text \in CommentSamples : setComment(p, text)

CommentSubmit == \E p \in PostIds : handleComment(p)

CommentResolve == \E i \in 1..Len(inflight) : \E ok \in BOOLEAN : commentDone(i, ok)

\* -------------------------------------------------------------- FeedPage
\* Mutant: loadFeed whose catch empties the list.
loadFeedClearsOnFailure(i, ok, data) ==
    /\ inflight[i].kind = "GET /posts/feed"
    /\ ev' = Event("loadFeed", IF ok THEN "ok" ELSE "fail", inflight[i])
    /\ posts' = IF ok THEN data ELSE << >>
    /\ comment' = IF ok THEN CommentsFor(data) ELSE << >>
    /\ inflight' = IF ok
                   THEN DetachComments(
                            MarkSuperseded(Remove(inflight, i), i - 1), data)
                   ELSE DetachComments(Remove(inflight, i), << >>)
    /\ feedLoading' = IF inflight[i].ctx = "handleCreatePost" THEN FALSE ELSE feedLoading
    /\ UNCHANGED <<authVars, signInVars, currentPage, newPost, users, profileVars>>

\* loadFeed after its await; when handleCreatePost awaits it, the finally of
\* handleCreatePost follows.
loadFeed(i, ok, data) ==
    /\ inflight[i].kind = "GET /posts/feed"
    /\ ev' = Event("loadFeed", IF ok THEN "ok" ELSE "fail", inflight[i])
    /\ posts' = IF ok THEN data ELSE posts
    /\ comment' = IF ok THEN CommentsFor(data) ELSE comment
    /\ inflight' = IF ok
                   THEN DetachComments(
                            MarkSuperseded(Remove(inflight, i), i - 1), data)
                   ELSE Remove(inflight, i)
    /\ feedLoading' = IF inflight[i].ctx = "handleCreatePost" THEN FALSE ELSE feedLoading
    /\ UNCHANGED <<authVars, signInVars, currentPage, newPost, users, profileVars>>

setNewPost(text) ==
    /\ View(user, loading) = "nav"
    /\ currentPage = "feed"
    /\ newPost # text
    /\ newPost' = text
    /\ ev' = Event("setNewPost", "done", NoReq)
    /\ UNCHANGED <<authVars, signInVars, currentPage, posts, feedLoading, comment,
                   users, profileVars, inflight>>

CreatePostRequest == Req("POST /posts", 0, "handleCreatePost", 0)

\* Mutant: handleCreatePost that tests newPost without trimming it.
handleCreatePostNoTrim ==
    /\ View(user, loading) = "nav"
    /\ currentPage = "feed"
    /\ ~feedLoading
    /\ IF Len(newPost) = 0
       THEN /\ ev' = Event("handleCreatePost", "rejected", NoReq)
            /\ UNCHANGED <<feedLoading, inflight>>
       ELSE /\ HasRoom
            /\ feedLoading' = TRUE
            /\ inflight' = Append(inflight, CreatePostRequest)
            /\ ev' = Event("handleCreatePost", "issue", CreatePostRequest)
    /\ UNCHANGED <<authVars, signInVars, currentPage, posts, newPost, comment,
                   users, profileVars>>

\* The Post button is disabled while loading.
handleCreatePost ==
    /\ View(user, loading) = "nav"
    /\ currentPage = "feed"
    /\ ~feedLoading
    /\ IF TrimIsEmpty(newPost)
       THEN /\ ev' = Event("handleCreatePost", "rejected", NoReq)
            /\ UNCHANGED <<feedLoading, inflight>>
       ELSE /\ HasRoom
            /\ feedLoading' = TRUE
            /\ inflight' = Append(inflight, CreatePostRequest)
            /\ ev' = Event("handleCreatePost", "issue", CreatePostRequest)
    /\ UNCHANGED <<authVars, signInVars, currentPage, posts, newPost, comment,
                   users, profileVars>>

\* handleCreatePost after its first await.
createPostDone(i, ok) ==
    /\ inflight[i].kind = "POST /posts"
    /\ ev' = Event("handleCreatePost", IF ok THEN "ok" ELSE "fail", inflight[i])
    /\ newPost' = IF ok THEN << >> ELSE newPost
    /\ feedLoading' = IF ok THEN feedLoading ELSE FALSE
    /\ inflight' = IF ok
                   THEN Append(Remove(inflight, i),
                               Req("GET /posts/feed", 0, "handleCreatePost", 0))
                   ELSE Remove(inflight, i)
    /\ UNCHANGED <<authVars, signInVars, currentPage, posts, comment, users, profileVars>>

FeedResolve ==
    \E i \in 1..Len(inflight) :
        \/ \E data \in FeedPayloads : loadFeed(i, TRUE, data)
        \/ loadFeed(i, FALSE, << >>)

TypeNewPost == \E text \in NewPostSamples : setNewPost(text)

CreatePostResolve ==
    \E i \in 1..Len(inflight) : \E ok \in BOOLEAN : createPostDone(i, ok)

\* ------------------------------------------------------------- UsersPage
\* loadUsers after its await.
loadUsers(i, ok, data) ==
    /\ inflight[i].kind = "GET /users"
    /\ ev' = Event("loadUsers", IF ok THEN "ok" ELSE "fail", inflight[i])
    /\ users' = IF ok THEN data ELSE users
    /\ inflight' = Remove(inflight, i)
    /\ UNCHANGED <<authVars, signInVars, currentPage, feedVars, comment, profileVars>>

\* users.filter(u => u.id !== user.id): the cards that carry a Follow button.
DisplayedUsers == SelectSeq(users, LAMBDA u : u.id # user.id)

FollowRequest(userId) == Req("POST /follows", userId, "handleFollow", 0)

handleFollow(userId) ==
    /\ View(user, loading) = "nav"
    /\ \E k \in 1..Len(DisplayedUsers) : DisplayedUsers[k].id = userId
    /\ HasRoom
    /\ inflight' = Append(inflight, FollowRequest(userId))
    /\ ev' = Event("handleFollow", "issue", FollowRequest(userId))
    /\ UNCHANGED <<authVars, signInVars, pageVars>>

\* Mutant: handleFollow that reloads the list in a finally.
followDoneReloadsAlways(i, ok) ==
    /\ inflight[i].kind = "POST /follows"
    /\ ev' = Event("handleFollow", IF ok THEN "ok" ELSE "fail", inflight[i])
    /\ inflight' = Append(Remove(inflight, i), Req("GET /users", 0, "handleFollow", 0))
    /\ UNCHANGED <<authVars, signInVars, pageVars>>

\* handleFollow after its first await: alert, then loadUsers.
followDone(i, ok) ==
    /\ inflight[i].kind = "POST /follows"
    /\ ev' = Event("handleFollow", IF ok THEN "ok" ELSE "fail", inflight[i])
    /\ inflight' = IF ok
                   THEN Append(Remove(inflight, i), Req("GET /users", 0, "handleFollow", 0))
                   ELSE Remove(inflight, i)
    /\ UNCHANGED <<authVars, signInVars, pageVars>>

UsersResolve ==
    \E i \in 1..Len(inflight) :
        \/ \E data \in UsersPayloads : loadUsers(i, TRUE, data)
        \/ loadUsers(i, FALSE, << >>)

FollowClick == \E userId \in UserIds : handleFollow(userId)

FollowResolve == \E i \in 1..Len(inflight) : \E ok \in BOOLEAN : followDone(i, ok)

\* ----------------------------------------------------------- ProfilePage
\* await refreshUser(): checkAuth starts its fetch.
RefreshRequest == Req("GET /auth/me", 0, "checkAuth", 0)

\* loadProfile after its await (it catches its own failure); when a profile
\* mutation awaits it, refreshUser() follows.
loadProfile(i, ok, data) ==
    /\ inflight[i].kind = "GET /users/id"
    /\ ev' = Event("loadProfile", IF ok THEN "ok" ELSE "fail", inflight[i])
    /\ profile' = IF ok /\ inflight[i].live THEN data ELSE profile
    /\ profileFormData' = IF ok /\ inflight[i].live
                          THEN [name |-> data.name, bio |-> data.bio]
                          ELSE profileFormData
    /\ comment' = IF ok /\ inflight[i].live THEN CommentsFor(data.posts) ELSE comment
    /\ inflight' =
         (IF ok /\ inflight[i].live
          THEN DetachComments(Remove(inflight, i), data.posts)
          ELSE Remove(inflight, i))
         \o (IF inflight[i].ctx \in ProfileMutations THEN << RefreshRequest >> ELSE << >>)
    /\ UNCHANGED <<authVars, signInVars, currentPage, feedVars, users, editing>>

isOwnProfile == profile.id = user.id

setEditing(b) ==
    /\ View(user, loading) = "nav"
    /\ currentPage = "profile"
    /\ profile # NoProfile
    /\ editing # b
    /\ b => isOwnProfile
    /\ editing' = b
    /\ ev' = Event("setEditing", "done", NoReq)
    /\ UNCHANGED <<authVars, signInVars, currentPage, feedVars, comment, users,
                   profile, profileFormData, inflight>>

setProfileFormData(fd) ==
    /\ View(user, loading) = "nav"
    /\ currentPage = "profile"
    /\ profile # NoProfile
    /\ editing
    /\ profileFormData # fd
    /\ profileFormData' = fd
    /\ ev' = Event("setProfileFormData", "done", NoReq)
    /\ UNCHANGED <<authVars, signInVars, currentPage, feedVars, comment, users,
                   profile, editing, inflight>>

UpdateProfileRequest(u) == Req("PATCH /users/me", 0, "handleUpdateProfile", u.id)

\* onSubmit of the edit form.
handleUpdateProfile ==
    /\ View(user, loading) = "nav"
    /\ currentPage = "profile"
    /\ profile # NoProfile
    /\ editing
    /\ HasRoom
    /\ inflight' = Append(inflight, UpdateProfileRequest(user))
    /\ ev' = Event("handleUpdateProfile", "issue", UpdateProfileRequest(user))
    /\ UNCHANGED <<authVars, signInVars, pageVars>>

\* The loadProfile() a profile mutation awaits after its own call.
ReloadRequest(r) ==
    [Req("GET /users/id", r.uid, r.ctx, r.uid) EXCEPT !.live = r.live]

\* Mutant: handleUpdateProfile that does not await loadProfile() before it
\* calls refreshUser().
updateProfileDoneNoAwait(i, ok) ==
    /\ inflight[i].kind = "PATCH /users/me"
    /\ ev' = Event("handleUpdateProfile", IF ok THEN "ok" ELSE "fail", inflight[i])
    /\ editing' = IF ok /\ inflight[i].live THEN FALSE ELSE editing
    /\ inflight' = IF ok
                   THEN Remove(inflight, i) \o
                        << [ReloadRequest(inflight[i]) EXCEPT !.ctx = "loadProfile"],
                           RefreshRequest >>
                   ELSE Remove(inflight, i)
    /\ UNCHANGED <<authVars, signInVars, currentPage, feedVars, comment, users,
                   profile, profileFormData>>

\* handleUpdateProfile after its first await.
updateProfileDone(i, ok) ==
    /\ inflight[i].kind = "PATCH /users/me"
    /\ ev' = Event("handleUpdateProfile", IF ok THEN "ok" ELSE "fail", inflight[i])
    /\ editing' = IF ok /\ inflight[i].live THEN FALSE ELSE editing
    /\ inflight' = IF ok
                   THEN Append(Remove(inflight, i), ReloadRequest(inflight[i]))
                   ELSE Remove(inflight, i)
    /\ UNCHANGED <<authVars, signInVars, currentPage, feedVars, comment, users,
                   profile, profileFormData>>

PhotoUploadRequest(u) == Req("POST /users/me/photo", 0, "handlePhotoUpload", u.id)

\* onChange of the file input; hasFile is whether e.target.files[0] exists.
handlePhotoUpload(hasFile) ==
    /\ View(user, loading) = "nav"
    /\ currentPage = "profile"
    /\ profile # NoProfile
    /\ isOwnProfile
    /\ ~editing
    /\ IF ~hasFile
       THEN /\ ev' = Event("handlePhotoUpload", "rejected", NoReq)
            /\ UNCHANGED inflight
       ELSE /\ HasRoom
            /\ inflight' = Append(inflight, PhotoUploadRequest(user))
            /\ ev' = Event("handlePhotoUpload", "issue", PhotoUploadRequest(user))
    /\ UNCHANGED <<authVars, signInVars, pageVars>>

\* handlePhotoUpload after its first await.
photoUploadDone(i, ok) ==
    /\ inflight[i].kind = "POST /users/me/photo"
    /\ ev' = Event("handlePhotoUpload", IF ok THEN "ok" ELSE "fail", inflight[i])
    /\ inflight' = IF ok
                   THEN Append(Remove(inflight, i), ReloadRequest(inflight[i]))
                   ELSE Remove(inflight, i)
    /\ UNCHANGED <<authVars, signInVars, pageVars>>

ProfileResolve ==
    \E i \in 1..Len(inflight) :
        \/ \E data \in ProfilePayloads(inflight[i].arg) : loadProfile(i, TRUE, data)
        \/ loadProfile(i, FALSE, NoProfile)

ToggleEditing == \E b \in BOOLEAN : setEditing(b)

TypeProfile == \E fd \in TypedProfileForms : setProfileFormData(fd)

UpdateProfileResolve ==
    \E i \in 1..Len(inflight) : \E ok \in BOOLEAN : updateProfileDone(i, ok)

PhotoChange == \E hasFile \in BOOLEAN : handlePhotoUpload(hasFile)

PhotoUploadResolve ==
    \E i \in 1..Len(inflight) : \E ok \in BOOLEAN : photoUploadDone(i, ok)

\* --------------------------------------------------------- specification
Next ==
    \/ CheckAuthResolve
    \/ LoginResolve
    \/ SignupResolve
    \/ LogoutResolve
    \/ handleSubmit
    \/ FillForm
    \/ ToggleMode
    \/ logoutClick
    \/ SwitchPage
    \/ LikeClick
    \/ LikeResolve
    \/ TypeComment
    \/ CommentSubmit
    \/ CommentResolve
    \/ FeedResolve
    \/ TypeNewPost
    \/ handleCreatePost
    \/ CreatePostResolve
    \/ UsersResolve
    \/ FollowClick
    \/ FollowResolve
    \/ ProfileResolve
    \/ ToggleEditing
    \/ TypeProfile
    \/ handleUpdateProfile
    \/ UpdateProfileResolve
    \/ PhotoChange
    \/ PhotoUploadResolve

Spec == Init /\ [][Next]_vars

\* ------------------------------------------- the sign-in form on its own
\* What the user may have typed into each input of the form.
UsernameSamples ==
    { << >>, Str(3, " "), <<"a", "b">>, <<"a", "B", "_">>, <<"a", "b", "!">>,
      <<"a", " ", "b", "c">>, Str(20, "x"), Str(21, "x") }

PasswordSamples == { << >>, Str(6, " "), Str(5, "p"), Str(6, "p") }

NameSamples == { << >>, <<" ">>, <<"N", " ">> }

EmailSamples ==
    { << >>, <<" ">>,
      <<"a", "@", "b", ".", "c">>,
      <<"a", ".", "b", "@", "c", ".", "d", ".", "e">>,
      <<"a", "@", "b">>,
      <<"@", "b", ".", "c">>,
      <<"a", "@", ".", "c">>,
      <<"a", "@", "b", ".">>,
      <<"a", " ", "@", "b", ".", "c">>,
      <<"a", "@", "b", "@", "c", ".", "d">> }

\* The sign-in view as it is after a failed identity check at startup, once
\* the user has typed into the form (name and email are typed in sign-up mode
\* and stay in formData when the mode is switched back).
InitForm ==
    /\ user = NULL
    /\ loading = FALSE
    /\ loggedOut = FALSE
    /\ mode \in {"login", "signup"}
    /\ formData \in [username : UsernameSamples, email : EmailSamples,
                      password : PasswordSamples, name : NameSamples]
    /\ errors = NoErrors
    /\ apiError = ""
    /\ signInLoading = FALSE
    /\ currentPage = "feed"
    /\ posts = << >>
    /\ newPost = << >>
    /\ feedLoading = FALSE
    /\ comment = << >>
    /\ users = << >>
    /\ profile = NoProfile
    /\ editing = FALSE
    /\ profileFormData = InitialProfileFormData
    /\ inflight = << >>
    /\ ev = Event("setFormData", "done", NoReq)

NextForm ==
    \/ handleSubmit
    \/ ToggleMode
    \/ LoginResolve
    \/ SignupResolve

SpecForm == InitForm /\ [][NextForm]_vars

\* ------------------------------------------------------------- properties
Kinds(k) == Count(inflight, {k}, {"checkAuth", "handleSubmit", "logout", "loadFeed",
    "handleCreatePost", "loadUsers", "handleFollow", "loadProfile",
    "handleUpdateProfile", "handlePhotoUpload"})

\* C1 as stated: whenever a logout() call finishes, whether the logout endpoint
\* call succeeded or failed, the session identity is absent.
LogoutAlwaysClears ==
    ev.op = "logout" /\ ev.phase \in {"ok", "fail"} => user = NULL

\* C1 amended: logout() calls the logout endpoint; when that call succeeds the
\* session identity is absent once logout() finishes; when it fails logout()
\* throws before it touches the session, and identity and loading flag stay as
\* they were.
LogoutClearsOnSuccessOnly ==
    [][ ev'.op = "logout" =>
          /\ ev'.phase = "issue" =>
                /\ Kinds("POST /auth/logout")' = Kinds("POST /auth/logout") + 1
                /\ user' = user
          /\ ev'.phase = "ok" => user' = NULL
          /\ ev'.phase = "fail" => user' = user /\ loading' = loading ]_vars

\* A logout() whose endpoint call failed has finished and the session is still
\* authenticated.
LogoutFailedWitness ==
    ev.op = "logout" /\ ev.phase = "fail" /\ user # NULL

\* C2: a login or signup whose endpoint call fails leaves the identity and the
\* loading flag as they were (an anonymous session stays anonymous) and the
\* Error reaches the calling form, which shows its message; the identity is
\* set, to an identity the endpoint returned, only when the call succeeds.
LoginFailureLeavesSession ==
    [][ ev'.op \in {"login", "signup"} =>
          /\ ev'.phase = "fail" =>
                /\ user' = user
                /\ loading' = loading
                /\ ev'.req.live =>
                      apiError' \in { ErrorMessage(b) : b \in ErrorBodies }
          /\ ev'.phase = "ok" => user' \in Identities
          /\ user' # user => ev'.phase = "ok" ]_vars

\* A login on an anonymous session has failed: the session is still anonymous
\* and the form shows the error.
LoginFailedWitness ==
    /\ ev.op = "login" /\ ev.phase = "fail" /\ ev.req.live
    /\ user = NULL
    /\ apiError = "Invalid credentials"

\* C3: every identity check (startup or refresh) ends with the identity set to
\* a returned identity on success and absent on failure, and with the loading
\* flag cleared; the loading flag is true only until the first identity check
\* completes: nothing else clears it and nothing sets it again.
IdentityCheckOutcome ==
    [][ /\ ev'.op = "checkAuth" =>
              /\ ~loading'
              /\ ev'.phase = "ok" => user' \in Identities
              /\ ev'.phase = "fail" => user' = NULL
        /\ loading' => loading
        /\ loading' # loading => ev'.op = "checkAuth" ]_vars

\* A refresh issued by the profile page failed while a user was signed in: the
\* identity is absent and the loading flag is still clear.
RefreshFailedWitness ==
    /\ ev.op = "checkAuth" /\ ev.phase = "fail"
    /\ user = NULL /\ ~loading
    /\ ~loggedOut
    /\ \E i \in 1..Len(inflight) : inflight[i].kind = "POST /auth/logout"

\* The viewer's id appears in the post's like collection, as a nested user
\* reference or as a direct user-id field.
ViewerInLikes(post, id) ==
    /\ post.hasLikes
    /\ \E k \in 1..Len(post.likes) :
          post.likes[k].user = id \/ post.likes[k].userId = id

\* The fetches, among reqs, of the parent whose onUpdate a Post was given.
ParentFetches(reqs, ctx) ==
    IF ctx = "loadFeed"
    THEN Count(reqs, {"GET /posts/feed"}, {"loadFeed"})
    ELSE Count(reqs, {"GET /users/id"}, {"loadProfile"})

\* C4: toggling like on a rendered post issues exactly one call for that
\* post's id, a delete if the viewer's id appears in the post's like collection
\* as rendered (nested user reference or direct user-id field) and a create
\* otherwise; the parent's refresh starts when that call has succeeded, not
\* before, and never when it failed.
LikeToggle ==
    [][ ev'.op = "handleLike" =>
          /\ ev'.phase = "issue" =>
                /\ \E k \in 1..Len(RenderedPosts) :
                      /\ RenderedPosts[k].id = ev'.req.arg
                      /\ ev'.req.kind =
                           IF ViewerInLikes(RenderedPosts[k], user.id)
                           THEN "DELETE /likes" ELSE "POST /likes"
                /\ inflight' = Append(inflight, ev'.req)
          /\ ev'.phase = "ok" =>
                /\ ParentFetches(inflight', ev'.req.ctx) =
                     ParentFetches(inflight, ev'.req.ctx) + 1
                /\ Len(inflight') = Len(inflight)
          /\ ev'.phase = "fail" =>
                /\ ParentFetches(inflight', ev'.req.ctx) =
                     ParentFetches(inflight, ev'.req.ctx)
                /\ Len(inflight') = Len(inflight) - 1 ]_vars

\* An unlike of a post the viewer likes through a direct user-id field has
\* succeeded and the feed is being re-fetched.
UnlikeWitness ==
    /\ ev.op = "handleLike" /\ ev.phase = "ok"
    /\ ev.req.kind = "DELETE /likes" /\ ev.req.ctx = "loadFeed"
    /\ Len(inflight) > 0 /\ inflight[Len(inflight)].kind = "GET /posts/feed"

\* The text is empty or whitespace only.
Blank(text) == Len(text) = 0 \/ \A i \in 1..Len(text) : text[i] \in Whitespace

FeedFetches == Count(inflight, {"GET /posts/feed"}, {"loadFeed", "handleCreatePost"})

\* C5: composing a post whose content is empty or whitespace only issues no
\* request and leaves the feed view's state unchanged; for non-blank content
\* exactly one create-post call is issued, and the feed is re-fetched when
\* that call has succeeded, not before, and not when it failed.
BlankPostIsNoOp ==
    [][ ev'.op = "handleCreatePost" =>
          /\ ev'.phase \in {"rejected", "issue"} =>
                IF Blank(newPost)
                THEN /\ ev'.phase = "rejected"
                     /\ UNCHANGED <<inflight, posts, newPost, feedLoading>>
                ELSE /\ ev'.phase = "issue"
                     /\ ev'.req.kind = "POST /posts"
                     /\ inflight' = Append(inflight, ev'.req)
                     /\ posts' = posts
          /\ ev'.phase = "ok" =>
                /\ FeedFetches' = FeedFetches + 1
                /\ Len(inflight') = Len(inflight)
          /\ ev'.phase = "fail" =>
                /\ FeedFetches' = FeedFetches
                /\ Len(inflight') = Len(inflight) - 1
                /\ posts' = posts ]_vars

\* A whitespace-only post was submitted and rejected.
BlankPostWitness ==
    /\ ev.op = "handleCreatePost" /\ ev.phase = "rejected"
    /\ Len(newPost) > 0
    /\ currentPage = "feed" /\ user # NULL

UsersFetches == Count(inflight, {"GET /users"}, {"loadUsers", "handleFollow"})

\* C6: a follow action on a listed user issues exactly one follow call, for
\* that user's id; the re-fetch of the users list starts when the follow call
\* has succeeded, not before; when it fails no re-fetch is issued and the list
\* is unchanged.
FollowThenRefetch ==
    [][ ev'.op = "handleFollow" =>
          /\ ev'.phase = "issue" =>
                /\ ev'.req.kind = "POST /follows"
                /\ ev'.req.arg # user.id
                /\ \E k \in 1..Len(users) : users[k].id = ev'.req.arg
                /\ inflight' = Append(inflight, ev'.req)
                /\ users' = users
          /\ ev'.phase = "ok" =>
                /\ UsersFetches' = UsersFetches + 1
                /\ Len(inflight') = Len(inflight)
          /\ ev'.phase = "fail" =>
                /\ UsersFetches' = UsersFetches
                /\ Len(inflight') = Len(inflight) - 1
                /\ users' = users ]_vars

\* A follow of a listed user has failed while the list is shown.
FollowFailedWitness ==
    /\ ev.op = "handleFollow" /\ ev.phase = "fail" /\ ev.req.arg = 2
    /\ Len(users) > 0
    /\ UsersFetches = 0

Letters ==
    {"a","b","c","d","e","f","g","h","i","j","k","l","m","n","o","p","q","r",
     "s","t","u","v","w","x","y","z","A","B","C","D","E","F","G","H","I","J",
     "K","L","M","N","O","P","Q","R","S","T","U","V","W","X","Y","Z"}
Digits == {"0","1","2","3","4","5","6","7","8","9"}

\* The fields' constraints as section 4.2 of the specification words them.
ValidUsername(v) ==
    /\ ~Blank(v)
    /\ Len(v) \in UsernameMin..UsernameMax
    /\ \A i \in 1..Len(v) : v[i] \in Letters \cup Digits \cup {"_"}

ValidPassword(v) == ~Blank(v) /\ Len(v) >= PasswordMin

ValidName(v) == ~Blank(v)

\* local@domain.tld: no whitespace, exactly one "@" with something before it,
\* and a "." later on with something between the two and something after it.
ValidEmail(v) ==
    /\ ~Blank(v)
    /\ \A i \in 1..Len(v) : v[i] \notin Whitespace
    /\ Cardinality({ i \in 1..Len(v) : v[i] = "@" }) = 1
    /\ \E a \in 2..Len(v) :
          /\ v[a] = "@"
          /\ \E d \in (a + 2)..(Len(v) - 1) : v[d] = "."

\* C7: the sign-in/sign-up view calls the session store only when local
\* validation passes, and what is validated depends on the mode: in sign-in
\* mode one login call is issued iff username and password are valid, whatever
\* name and email hold; in sign-up mode one registration call is issued iff
\* username, password, name and email are all valid.
SubmitOnlyWhenValid ==
    [][ ev'.op = "handleSubmit" =>
          /\ ev'.phase \in {"issue", "rejected"}
          /\ mode = "login" =>
                /\ ev'.phase = "issue" <=>
                      ValidUsername(formData.username) /\ ValidPassword(formData.password)
                /\ ev'.phase = "issue" => ev'.req.kind = "POST /auth/login"
          /\ mode = "signup" =>
                /\ ev'.phase = "issue" <=>
                      /\ ValidUsername(formData.username)
                      /\ ValidPassword(formData.password)
                      /\ ValidName(formData.name)
                      /\ ValidEmail(formData.email)
                /\ ev'.phase = "issue" => ev'.req.kind = "POST /auth/register"
          /\ inflight' = IF ev'.phase = "issue"
                         THEN Append(inflight, ev'.req)
                         ELSE inflight ]_vars

\* A login was issued in sign-in mode although the name is blank and the
\* email malformed.
LoginIgnoresSignupFieldsWitness ==
    /\ ev.op = "handleSubmit" /\ ev.phase = "issue"
    /\ ev.req.kind = "POST /auth/login"
    /\ mode = "login"
    /\ Blank(formData.name)
    /\ formData.email = <<"a", "@", "b">>

\* The fetched data the views display.
ViewData == <<posts, users, profile>>

\* C8 as stated: after any remote call fails (identity check or refresh
\* included), the session identity and the data the views display are what
\* they were before.
FailureLeavesPriorState ==
    [][ ev'.phase = "fail" => user' = user /\ ViewData' = ViewData ]_vars

\* C8 amended: the failure of any remote call other than an identity check
\* (login, signup, logout, feed, users and profile fetches, create post, like,
\* comment, follow, profile update, avatar upload) changes neither the session
\* identity nor the loading flag, the page shown or the data the views
\* display; a failed identity check or refresh resets the identity to absent.
FailureLeavesPriorStateButCheck ==
    [][ ev'.phase = "fail" =>
          IF ev'.op = "checkAuth"
          THEN user' = NULL
          ELSE /\ user' = user
               /\ loading' = loading
               /\ currentPage' = currentPage
               /\ ViewData' = ViewData ]_vars

\* A feed fetch has failed while the feed shows posts.
FeedFetchFailedWitness ==
    /\ ev.op = "loadFeed" /\ ev.phase = "fail"
    /\ user # NULL /\ Len(posts) > 0

\* The outstanding profile mutations, the re-fetches they await, and the
\* identity checks.
Mutations(reqs) ==
    Count(reqs, {"PATCH /users/me", "POST /users/me/photo"}, ProfileMutations)
Reloads(reqs) == Count(reqs, {"GET /users/id"}, ProfileMutations)
Refreshes(reqs) == Count(reqs, {"GET /auth/me"}, {"checkAuth"})

\* C9: a profile mutation (update or avatar upload) that succeeds is followed
\* by one re-fetch of the profile, which starts when the mutation has
\* completed, and then by one session refresh, which starts when the re-fetch
\* has completed; no re-fetch and no refresh start at any other moment, and
\* none when the mutation fails.
MutationThenReloadThenRefresh ==
    [][ /\ ev'.op \in ProfileMutations =>
              /\ ev'.phase = "rejected" => inflight' = inflight
              /\ ev'.phase = "issue" =>
                    /\ Mutations(inflight') = Mutations(inflight) + 1
                    /\ Reloads(inflight') = Reloads(inflight)
                    /\ Refreshes(inflight') = Refreshes(inflight)
              /\ ev'.phase = "ok" =>
                    /\ Mutations(inflight') = Mutations(inflight) - 1
                    /\ Reloads(inflight') = Reloads(inflight) + 1
                    /\ Refreshes(inflight') = Refreshes(inflight)
                    /\ inflight'[Len(inflight')].ctx = ev'.op
              /\ ev'.phase = "fail" =>
                    /\ Mutations(inflight') = Mutations(inflight) - 1
                    /\ Reloads(inflight') = Reloads(inflight)
                    /\ Refreshes(inflight') = Refreshes(inflight)
        /\ Reloads(inflight') > Reloads(inflight) =>
              ev'.op \in ProfileMutations /\ ev'.phase = "ok"
        /\ Refreshes(inflight') > Refreshes(inflight) =>
              /\ ev'.op = "loadProfile"
              /\ ev'.req.ctx \in ProfileMutations
        /\ ev'.op = "loadProfile" /\ ev'.req.ctx \in ProfileMutations =>
              /\ Reloads(inflight') = Reloads(inflight) - 1
              /\ Refreshes(inflight') = Refreshes(inflight) + 1 ]_vars

\* The re-fetch that followed a successful profile update has completed and
\* the session refresh is outstanding.
RefreshAfterReloadWitness ==
    /\ ev.op = "loadProfile" /\ ev.phase = "ok"
    /\ ev.req.ctx = "handleUpdateProfile" /\ ev.req.live
    /\ Refreshes(inflight) = 1 /\ Reloads(inflight) = 0 /\ Mutations(inflight) = 0
    /\ ~editing

\* C10: once a logout() has succeeded and set the session to anonymous, the
\* identity stays absent until a login or signup succeeds, whatever the order
\* of the responses: an identity check that was issued before the logout and
\* resolves after it does not put the identity back.  (An identity check
\* issued after the logout is answered from the session the server then
\* holds, and is left out.)
StaysLoggedOut ==
    [][ loggedOut /\ user' # NULL =>
          \/ ev'.op \in {"login", "signup"} /\ ev'.phase = "ok"
          \/ ev'.op = "checkAuth" /\ ~ev'.req.stale ]_vars

\* C11: when several feed fetches are outstanding and resolve in any order,
\* the feed shows the posts of the most recently issued one: the response to
\* a fetch made before a fetch that has already succeeded leaves the
\* displayed posts as they are.
LatestFeedFetchWins ==
    [][ ev'.op = "loadFeed" /\ ev'.phase = "ok" /\ ev'.req.stale =>
          posts' = posts ]_vars

====
